---------------------------- MODULE Spec2Model ----------------------------
(***************************************************************************)
(* Model of src/script.js: the product dialog (class ModalManager), its    *)
(* deferred callbacks, its purchase routing and the key handling that      *)
(* goes with it; the dropdown menus (class DropdownManager), the scroll    *)
(* links (class SmoothScroller), the startup of the page (class App), and  *)
(* the throttled scroll listener of the header (throttle, HeaderManager).  *)
(*                                                                         *)
(* Strings that the program transforms (titles, display names, URLs, the   *)
(* WhatsApp message) are sequences of Unicode code points, so that         *)
(* encodeURIComponent is modelled by what it does.  Product ids, element   *)
(* names and style values, which the program only compares, are TLA+       *)
(* strings.                                                                *)
(*                                                                         *)
(* Environment (not part of src/): the host document and its stylesheet.   *)
(* The document modelled here has seven trigger buttons, two of which     *)
(* carry the same product id and one of which carries an id that is not in *)
(* the catalog; the dialog contains the close control and the confirm      *)
(* control; the dialog surface is rendered exactly when its inline display *)
(* is 'flex'.  Activating a control does not by itself move keyboard       *)
(* focus.  Time advances in steps of 100 ms.                               *)
(*                                                                         *)
(* Spec, SpecLinks and SpecDocument start after a successful startup in a  *)
(* document without dropdowns and scroll links.  SpecPage starts before    *)
(* startup, for every combination of the dialog's elements being there or  *)
(* not, in a document with two dropdowns whose first menu items are scroll *)
(* links and one scroll link outside them; the dropdowns and the dialog    *)
(* lie outside each other, every dropdown has its button and its content,  *)
(* and a menu item can take focus whether or not its content carries       *)
(* 'show'.  The constructors other than ModalManager's do not throw.  The  *)
(* highlight that follows a scroll (two timers that only touch the style   *)
(* of the target) is left out.  SpecScroll is the page after startup under *)
(* scroll events only, with time in steps of 5 ms; the other               *)
(* specifications keep the window at its first position.  No dropdown      *)
(* content carries 'show' when the document is loaded.                     *)
(***************************************************************************)
EXTENDS Integers, Sequences, FiniteSets, TLC

\* ------------------------------------------------------------------------
\* Bounds of the model
\* ------------------------------------------------------------------------
\* most deferred callbacks pending at once
MaxTimers == 2
\* most windows opened by window.open between one open and the next
MaxNav == 2

\* ------------------------------------------------------------------------
\* Program constants
\* ------------------------------------------------------------------------
\* const ANIMATION_DURATION = 300, in steps of 100 ms
ANIMATION_DURATION == 3
\* the delay of the deferred focus in openModal, 100 ms, in steps of 100 ms
FOCUS_DELAY == 1

\* setTimeout(() => firstMenuItem.focus(), 100), in steps of 100 ms
MENU_FOCUS_DELAY == 1

\* throttle(() => this.handleScroll(), 10), in steps of 5 ms
HEADER_THROTTLE == 2

\* if (currentScrollY > 100), in pixels
HEADER_THRESHOLD == 100

\* the JavaScript value undefined, where a product id or an element is expected
undefined == "undefined"
\* the JavaScript value undefined, where a string value is expected
undefinedString == << -1 >>
\* the outcome of an expression that throws (the Thrown of
\* encodeURIComponent and decodeURIComponent)
Thrown == << -2 >>

\* paymentLinks["gamma-indices"] = "https://pay.infinitepay.io/danilopetri_trader/VC1D-5wgZ9JkIvb-300,00"
LinkGammaIndices ==
  <<104, 116, 116, 112, 115, 58, 47, 47, 112, 97, 121, 46, 105, 110, 102,
      105, 110, 105, 116, 101, 112, 97, 121, 46, 105, 111, 47, 100, 97, 110,
      105, 108, 111, 112, 101, 116, 114, 105, 95, 116, 114, 97, 100, 101,
      114, 47, 86, 67, 49, 68, 45, 53, 119, 103, 90, 57, 74, 107, 73, 118,
      98, 45, 51, 48, 48, 44, 48, 48>>

\* paymentLinks["gamma-cripto"] = "https://link.infinitepay.io/danilopetri_trader/VC1D-9zjvyg6L-299,99"
LinkGammaCripto ==
  <<104, 116, 116, 112, 115, 58, 47, 47, 108, 105, 110, 107, 46, 105, 110,
      102, 105, 110, 105, 116, 101, 112, 97, 121, 46, 105, 111, 47, 100, 97,
      110, 105, 108, 111, 112, 101, 116, 114, 105, 95, 116, 114, 97, 100,
      101, 114, 47, 86, 67, 49, 68, 45, 57, 122, 106, 118, 121, 103, 54, 76,
      45, 50, 57, 57, 44, 57, 57>>

\* paymentLinks["indicador-gamma"] = "https://pay.infinitepay.io/danilopetri_trader/VC1D-6qDIKOF6F-300,00"
LinkIndicadorGamma ==
  <<104, 116, 116, 112, 115, 58, 47, 47, 112, 97, 121, 46, 105, 110, 102,
      105, 110, 105, 116, 101, 112, 97, 121, 46, 105, 111, 47, 100, 97, 110,
      105, 108, 111, 112, 101, 116, 114, 105, 95, 116, 114, 97, 100, 101,
      114, 47, 86, 67, 49, 68, 45, 54, 113, 68, 73, 75, 79, 70, 54, 70, 45,
      51, 48, 48, 44, 48, 48>>

\* paymentLinks["imersao"] = "https://pay.hotmart.com/B99375401O"
LinkImersao ==
  <<104, 116, 116, 112, 115, 58, 47, 47, 112, 97, 121, 46, 104, 111, 116,
      109, 97, 114, 116, 46, 99, 111, 109, 47, 66, 57, 57, 51, 55, 53, 52,
      48, 49, 79>>

\* paymentLinks["mentoria"] = "https://pay.hotmart.com/H95976212G"
LinkMentoria ==
  <<104, 116, 116, 112, 115, 58, 47, 47, 112, 97, 121, 46, 104, 111, 116,
      109, 97, 114, 116, 46, 99, 111, 109, 47, 72, 57, 53, 57, 55, 54, 50,
      49, 50, 71>>

\* productContents["gamma-indices"].title = "Relat?rio Gamma - ?ndices"
TitleGammaIndices ==
  <<82, 101, 108, 97, 116, 243, 114, 105, 111, 32, 71, 97, 109, 109, 97, 32,
      45, 32, 205, 110, 100, 105, 99, 101, 115>>

\* productContents["gamma-cripto"].title = "Relat?rio Gamma - Cripto"
TitleGammaCripto ==
  <<82, 101, 108, 97, 116, 243, 114, 105, 111, 32, 71, 97, 109, 109, 97, 32,
      45, 32, 67, 114, 105, 112, 116, 111>>

\* productContents["indicador-gamma"].title = "Indicador Gamma"
TitleIndicadorGamma ==
  <<73, 110, 100, 105, 99, 97, 100, 111, 114, 32, 71, 97, 109, 109, 97>>

\* productContents["imersao"].title = "Imers?o 2.0"
TitleImersao ==
  <<73, 109, 101, 114, 115, 227, 111, 32, 50, 46, 48>>

\* productContents["mentoria"].title = "Mentoria Individual"
TitleMentoria ==
  <<77, 101, 110, 116, 111, 114, 105, 97, 32, 73, 110, 100, 105, 118, 105,
      100, 117, 97, 108>>

\* productNames["gamma-indices"] = "Relat?rio Gamma - ?ndices"
NameGammaIndices ==
  <<82, 101, 108, 97, 116, 243, 114, 105, 111, 32, 71, 97, 109, 109, 97, 32,
      45, 32, 205, 110, 100, 105, 99, 101, 115>>

\* productNames["gamma-cripto"] = "Relat?rio Gamma - Cripto"
NameGammaCripto ==
  <<82, 101, 108, 97, 116, 243, 114, 105, 111, 32, 71, 97, 109, 109, 97, 32,
      45, 32, 67, 114, 105, 112, 116, 111>>

\* productNames["indicador-gamma"] = "Indicador Gamma"
NameIndicadorGamma ==
  <<73, 110, 100, 105, 99, 97, 100, 111, 114, 32, 71, 97, 109, 109, 97>>

\* productNames["imersao"] = "Imers?o 2.0"
NameImersao ==
  <<73, 109, 101, 114, 115, 227, 111, 32, 50, 46, 48>>

\* productNames["mentoria"] = "Mentoria Individual"
NameMentoria ==
  <<77, 101, 110, 116, 111, 114, 105, 97, 32, 73, 110, 100, 105, 118, 105,
      100, 117, 97, 108>>

\* message, up to the product name: "Ol?! Tenho interesse no produto: "
MessagePrefix ==
  <<79, 108, 225, 33, 32, 84, 101, 110, 104, 111, 32, 105, 110, 116, 101,
      114, 101, 115, 115, 101, 32, 110, 111, 32, 112, 114, 111, 100, 117,
      116, 111, 58, 32>>

\* message, after the product name: ". Poderia me enviar mais informa??es sobre como adquirir?"
MessageSuffix ==
  <<46, 32, 80, 111, 100, 101, 114, 105, 97, 32, 109, 101, 32, 101, 110,
      118, 105, 97, 114, 32, 109, 97, 105, 115, 32, 105, 110, 102, 111, 114,
      109, 97, 231, 245, 101, 115, 32, 115, 111, 98, 114, 101, 32, 99, 111,
      109, 111, 32, 97, 100, 113, 117, 105, 114, 105, 114, 63>>

\* "https://wa.me/5511958300001?text="
WhatsappBase ==
  <<104, 116, 116, 112, 115, 58, 47, 47, 119, 97, 46, 109, 101, 47, 53, 53,
      49, 49, 57, 53, 56, 51, 48, 48, 48, 48, 49, 63, 116, 101, 120, 116,
      61>>

\* the text a template literal renders for the value undefined: "undefined"
UndefinedText ==
  <<117, 110, 100, 101, 102, 105, 110, 101, 100>>

\* ------------------------------------------------------------------------
\* The three tables of ModalManager
\* ------------------------------------------------------------------------
\* this.paymentLinks without line 272: no payment link for the mentoring
ShippedPaymentLinks_short ==
  [id \in {"gamma-indices", "gamma-cripto", "indicador-gamma", "imersao"} |->
     IF id = "gamma-indices" THEN LinkGammaIndices
     ELSE IF id = "gamma-cripto" THEN LinkGammaCripto
     ELSE IF id = "indicador-gamma" THEN LinkIndicadorGamma
     ELSE LinkImersao]

\* this.paymentLinks as shipped
ShippedPaymentLinks ==
  ("gamma-indices" :> LinkGammaIndices) @@
  ("gamma-cripto" :> LinkGammaCripto) @@
  ("indicador-gamma" :> LinkIndicadorGamma) @@
  ("imersao" :> LinkImersao) @@
  ("mentoria" :> LinkMentoria)

\* this.productContents; a body is named by the template literal that holds it
productContents ==
  ("gamma-indices" :> [title |-> TitleGammaIndices, content |-> "body@278-317"]) @@
  ("gamma-cripto" :> [title |-> TitleGammaCripto, content |-> "body@321-366"]) @@
  ("indicador-gamma" :> [title |-> TitleIndicadorGamma, content |-> "body@370-426"]) @@
  ("imersao" :> [title |-> TitleImersao, content |-> "body@430-485"]) @@
  ("mentoria" :> [title |-> TitleMentoria, content |-> "body@489-558"])

\* productNames with display names that no longer match the catalog titles
productNames_stale ==
  ("gamma-indices" :> SubSeq(NameGammaIndices, 1, 9)) @@
  ("gamma-cripto" :> SubSeq(NameGammaCripto, 1, 9)) @@
  ("indicador-gamma" :> SubSeq(NameIndicadorGamma, 1, 9)) @@
  ("imersao" :> SubSeq(NameImersao, 1, 7)) @@
  ("mentoria" :> SubSeq(NameMentoria, 1, 8))

\* const productNames in handlePurchase
productNames ==
  ("gamma-indices" :> NameGammaIndices) @@
  ("gamma-cripto" :> NameGammaCripto) @@
  ("indicador-gamma" :> NameIndicadorGamma) @@
  ("imersao" :> NameImersao) @@
  ("mentoria" :> NameMentoria)

\* obj[key] for a table of strings: undefined when the key is absent
StringAt(table, key) ==
  IF key \in DOMAIN table THEN table[key] ELSE undefinedString

\* if (value): undefined and the empty string are falsy
Truthy(value) == value # undefinedString /\ value # <<>>

\* ${value} in a template literal
TemplateText(value) ==
  IF value = undefinedString THEN UndefinedText ELSE value

\* ------------------------------------------------------------------------
\* encodeURIComponent and decodeURIComponent
\* ------------------------------------------------------------------------
\* A-Z a-z 0-9 - _ . ! ~ * ' ( ) are left as they are
Unreserved(c) ==
  \/ c \in 65..90
  \/ c \in 97..122
  \/ c \in 48..57
  \/ c \in {45, 95, 46, 33, 126, 42, 39, 40, 41}

IsSurrogate(c) == c \in 55296..57343

\* the UTF-8 bytes of one code point
UTF8(c) ==
  IF c < 128 THEN <<c>>
  ELSE IF c < 2048 THEN <<192 + (c \div 64), 128 + (c % 64)>>
  ELSE IF c < 65536
    THEN <<224 + (c \div 4096), 128 + ((c \div 64) % 64), 128 + (c % 64)>>
  ELSE <<240 + (c \div 262144), 128 + ((c \div 4096) % 64),
         128 + ((c \div 64) % 64), 128 + (c % 64)>>

\* the character code of an upper-case hexadecimal digit
HexDigit(n) == IF n < 10 THEN 48 + n ELSE 55 + n

\* %XX for one byte
PercentByte(b) == <<37, HexDigit(b \div 16), HexDigit(b % 16)>>

RECURSIVE PercentBytes(_)
PercentBytes(bytes) ==
  IF bytes = <<>> THEN <<>>
  ELSE PercentByte(Head(bytes)) \o PercentBytes(Tail(bytes))

\* the encoding of the code points lo..hi of s, by halves
RECURSIVE EncodeRange(_, _, _)
EncodeRange(s, lo, hi) ==
  IF lo > hi THEN <<>>
  ELSE IF lo = hi
    THEN (IF Unreserved(s[lo]) THEN <<s[lo]>> ELSE PercentBytes(UTF8(s[lo])))
  ELSE EncodeRange(s, lo, (lo + hi) \div 2)
       \o EncodeRange(s, (lo + hi) \div 2 + 1, hi)

encodeURIComponent(s) ==
  IF \E i \in 1..Len(s) : IsSurrogate(s[i]) THEN Thrown
  ELSE EncodeRange(s, 1, Len(s))

\* the value of a hexadecimal digit, -1 when it is none
HexValue(c) ==
  IF c \in 48..57 THEN c - 48
  ELSE IF c \in 65..70 THEN c - 55
  ELSE IF c \in 97..102 THEN c - 87
  ELSE -1

\* the byte that the escape at position i of s stands for, -1 when malformed
EscapedByte(s, i) ==
  IF i < 1 \/ i + 2 > Len(s) THEN -1
  ELSE IF s[i] # 37 \/ HexValue(s[i + 1]) < 0 \/ HexValue(s[i + 2]) < 0 THEN -1
  ELSE 16 * HexValue(s[i + 1]) + HexValue(s[i + 2])

\* position i of s holds one of the two digits of an escape
InsideEscape(s, i) ==
  \/ i > 1 /\ s[i - 1] = 37
  \/ i > 2 /\ s[i - 2] = 37 /\ s[i - 1] # 37

\* a continuation byte's six bits, -1 when the escape at i is none
Continuation(s, i) ==
  IF EscapedByte(s, i) \in 128..191 THEN EscapedByte(s, i) - 128 ELSE -1

\* what position i of s contributes to the decoded text: a literal
\* character, the code point of the UTF-8 sequence of escapes that starts
\* at i, nothing inside such a sequence, -2 for a malformed one
DecodeAt(s, i) ==
  IF s[i] # 37 THEN (IF InsideEscape(s, i) THEN <<>> ELSE <<s[i]>>)
  ELSE LET b == EscapedByte(s, i)
           c1 == Continuation(s, i + 3)
           c2 == Continuation(s, i + 6)
           c3 == Continuation(s, i + 9)
           lead == EscapedByte(s, i - 3)
           lead2 == EscapedByte(s, i - 6)
           lead3 == EscapedByte(s, i - 9)
       IN IF b \in 0..127 THEN <<b>>
          ELSE IF b \in 128..191
            THEN (IF \/ lead \in 192..247
                     \/ lead \in 128..191 /\ lead2 \in 224..247
                     \/ lead \in 128..191 /\ lead2 \in 128..191
                          /\ lead3 \in 240..247
                  THEN <<>> ELSE << -2 >>)
          ELSE IF b \in 192..223 /\ c1 >= 0 THEN <<(b - 192) * 64 + c1>>
          ELSE IF b \in 224..239 /\ c1 >= 0 /\ c2 >= 0
            THEN <<(b - 224) * 4096 + c1 * 64 + c2>>
          ELSE IF b \in 240..247 /\ c1 >= 0 /\ c2 >= 0 /\ c3 >= 0
            THEN <<(b - 240) * 262144 + c1 * 4096 + c2 * 64 + c3>>
          ELSE << -2 >>

\* the decoding of the positions lo..hi of s, by halves
RECURSIVE DecodeRange(_, _, _)
DecodeRange(s, lo, hi) ==
  IF lo > hi THEN <<>>
  ELSE IF lo = hi THEN DecodeAt(s, lo)
  ELSE DecodeRange(s, lo, (lo + hi) \div 2)
       \o DecodeRange(s, (lo + hi) \div 2 + 1, hi)

decodeURIComponent(s) ==
  LET d == DecodeRange(s, 1, Len(s))
  IN IF \E i \in 1..Len(d) : d[i] = -2 THEN Thrown ELSE d

\* s has t as a substring
Contains(s, t) ==
  \E i \in 1..(Len(s) - Len(t) + 1) : SubSeq(s, i, i + Len(t) - 1) = t

\* s begins with t
StartsWith(s, t) == Len(s) >= Len(t) /\ SubSeq(s, 1, Len(t)) = t

\* ------------------------------------------------------------------------
\* State
\* ------------------------------------------------------------------------
VARIABLES
  isOpen,                 \* this.isOpen
  currentProduct,         \* this.currentProduct
  focusableElements,      \* this.focusableElements (<<>> for null)
  firstFocusableElement,  \* this.firstFocusableElement
  lastFocusableElement,   \* this.lastFocusableElement
  paymentLinks,           \* this.paymentLinks
  modalTitle,             \* this.modalTitle.textContent
  modalContent,           \* this.modalContent.innerHTML
  modalShow,              \* this.modal.classList.contains('show')
  modalDisplay,           \* this.modal.style.display
  bodyOverflow,           \* document.body.style.overflow
  activeElement,          \* document.activeElement
  timers,                 \* pending setTimeout callbacks, in scheduling order
  gtagDefined,            \* typeof gtag !== 'undefined'
  step,                   \* what the event loop ran last: "event", "timeout", "idle"
  lastOp,                 \* the event callback that ran last
  windows,                \* the calls of window.open made by that callback
  events,                 \* the calls of gtag made by that callback
  trigger,                \* event.currentTarget of the last open that entered Open
  navigations,            \* the calls of window.open since that open
  focusableControls,      \* the dialog's controls match focusableElementsString
  elements,               \* which of the dialog's elements the document has
  dropdowns,              \* DropdownManager: this.dropdowns
  scrollLinks,            \* document.querySelectorAll('.scroll-link')
  dropdownShow,           \* the dropdowns whose content carries 'show'
  activeDropdown,         \* DropdownManager: this.activeDropdown
  ariaExpanded,           \* aria-expanded of the button of each dropdown
  wired,                  \* what ModalManager.init has added listeners to
  components,             \* App: the keys of this.components, in order
  windowDropdownManager,  \* window.dropdownManager is defined
  startupError,           \* initializeComponents has caught an error
  scrolls,                \* the calls of window.scrollTo made by the last callback
  scrollY,                \* window.scrollY
  lastScrollY,            \* HeaderManager: this.lastScrollY
  headerBackground,       \* this.header.style.background
  headerBackdropFilter,   \* this.header.style.backdropFilter
  inThrottle,             \* inThrottle of the throttled scroll listener, as text
  throttleTimers          \* the pending callbacks of throttle, in steps of 5 ms

vars == <<isOpen, currentProduct, focusableElements, firstFocusableElement,
          lastFocusableElement, paymentLinks, modalTitle, modalContent,
          modalShow, modalDisplay, bodyOverflow, activeElement, timers,
          gtagDefined, step, lastOp, windows, events, trigger, navigations,
          focusableControls, elements, dropdowns, scrollLinks, dropdownShow,
          activeDropdown, ariaExpanded,
          wired, components, windowDropdownManager, startupError, scrolls,
          scrollY, lastScrollY, headerBackground, headerBackdropFilter,
          inThrottle, throttleTimers>>

\* the scroll position and the state of the header and of its throttle
headerVars == <<scrollY, lastScrollY, headerBackground, headerBackdropFilter,
                inThrottle, throttleTimers>>

\* everything else
pageVars == <<isOpen, currentProduct, focusableElements, firstFocusableElement,
              lastFocusableElement, paymentLinks, modalTitle, modalContent,
              modalShow, modalDisplay, bodyOverflow, activeElement, timers,
              gtagDefined, windows, events, trigger, navigations,
              focusableControls, elements, dropdowns, scrollLinks,
              dropdownShow, activeDropdown, ariaExpanded, wired, components,
              windowDropdownManager, startupError, scrolls>>

\* the host document, which the script never changes
documentVars == <<focusableControls, elements, dropdowns, scrollLinks>>

\* what startup leaves behind
startupVars == <<wired, components, windowDropdownManager, startupError>>

\* the state that only the dropdown manager writes
dropdownVars == <<dropdownShow, activeDropdown, ariaExpanded>>

\* the state that only the modal controller writes
modalVars == <<isOpen, currentProduct, focusableElements, firstFocusableElement,
               lastFocusableElement, modalTitle, modalContent, modalShow,
               modalDisplay, bodyOverflow>>

\* ------------------------------------------------------------------------
\* The host document
\* ------------------------------------------------------------------------
\* document.querySelectorAll('.product-btn'), in document order
productButtons == <<"btn1", "btn2", "btn3", "btn4", "btn5", "btn6", "btn7">>

\* getAttribute('data-product') of each trigger button
DataProduct ==
  ("btn1" :> "gamma-indices") @@
  ("btn2" :> "gamma-cripto") @@
  ("btn3" :> "indicador-gamma") @@
  ("btn4" :> "imersao") @@
  ("btn5" :> "mentoria") @@
  ("btn6" :> "gamma-indices") @@
  ("btn7" :> "curso-x")

\* the elements ModalManager looks up besides the product buttons: the
\* dialog surface, the close control, the backdrop, the confirm control
ModalElements == {"modal", "closeBtn", "overlay", "buyBtn"}

\* what querySelectorAll(focusableElementsString) finds inside the dialog:
\* the close control and the confirm control when they are there and are
\* enabled buttons
ModalFocusable ==
  IF focusableControls
  THEN SelectSeq(<<"closeBtn", "buyBtn">>, LAMBDA e : e \in elements)
  ELSE <<>>

\* the elements of a sequence
Range(s) == {s[i] : i \in 1..Len(s)}

\* dropdown.querySelector('.dropdown-btn') of each dropdown a document can have
DropdownButton == [dd1 |-> "dd1.btn", dd2 |-> "dd2.btn"]

\* content.querySelector('a') of each dropdown: its first menu item, a
\* scroll link
MenuLink == [dd1 |-> "dd1.link", dd2 |-> "dd2.link"]

\* the focusable elements of the dropdowns ds, in document order
RECURSIVE DropdownElements(_)
DropdownElements(ds) ==
  IF ds = <<>> THEN <<>>
  ELSE <<DropdownButton[Head(ds)], MenuLink[Head(ds)]>>
       \o DropdownElements(Tail(ds))

\* aria-expanded of a button as the document has it, before the script
\* sets it
AriaInitial == "initial"

\* e.closest('.dropdown'), "null" when e lies in no dropdown
Closest(e) ==
  LET holders == {d \in Range(dropdowns) : e \in {DropdownButton[d], MenuLink[d]}}
  IN IF holders = {} THEN "null" ELSE CHOOSE d \in holders : TRUE

\* the scroll links that lie in no dropdown
PageLinks == SelectSeq(scrollLinks, LAMBDA e : Closest(e) = "null")

\* the elements that lie inside the dialog surface
InModal(e) == e \in Range(ModalFocusable)

\* an element can take focus when it is rendered
Rendered(e, display) == IF InModal(e) THEN display = "flex" ELSE e # "body"

\* the tab order of the document: the rendered focusable elements in order
RECURSIVE SelectRendered(_, _)
SelectRendered(s, display) ==
  IF s = <<>> THEN <<>>
  ELSE (IF Rendered(Head(s), display) THEN <<Head(s)>> ELSE <<>>)
       \o SelectRendered(Tail(s), display)

TabOrder(display) ==
  SelectRendered(PageLinks \o DropdownElements(dropdowns) \o productButtons
                   \o ModalFocusable, display)

\* the position of e in s, 0 when e is not in s
IndexOf(s, e) ==
  IF e \in Range(s) THEN CHOOSE i \in 1..Len(s) : s[i] = e /\ \A j \in 1..(i - 1) : s[j] # e
  ELSE 0

\* the default action of Tab and Shift+Tab: focus moves to the next or the
\* previous element of the tab order, around the ends
DefaultTab(from, shiftKey, display) ==
  LET order == TabOrder(display)
      n == Len(order)
      i == IndexOf(order, from)
  IN IF n = 0 THEN from
     ELSE IF shiftKey THEN (IF i <= 1 THEN order[n] ELSE order[i - 1])
     ELSE (IF i = 0 \/ i = n THEN order[1] ELSE order[i + 1])

\* document.querySelector(`[data-product="${product}"]`): the first match
\* in document order, undefined for null
QueryDataProduct(product) ==
  LET matches == {i \in 1..Len(productButtons) : DataProduct[productButtons[i]] = product}
  IN IF matches = {} THEN undefined
     ELSE productButtons[CHOOSE i \in matches : \A j \in matches : i <= j]

\* ------------------------------------------------------------------------
\* Initial states
\* ------------------------------------------------------------------------
\* the record of one event callback: the handler, its argument, isOpen,
\* currentProduct and the open dropdowns when it began, whether it threw,
\* whether it called event.preventDefault(), and event.shiftKey
Op(name, arg, threw, prevented) ==
  [name |-> name, arg |-> arg, wasOpen |-> isOpen, product |-> currentProduct,
   shown |-> dropdownShow, threw |-> threw, prevented |-> prevented,
   shiftKey |-> FALSE]

\* the record of a keydown event
KeyOp(key, shiftKey, prevented) ==
  [Op("keydown", key, FALSE, prevented) EXCEPT !.shiftKey = shiftKey]

\* the keys of this.components, in the order initializeComponents
\* constructs them
ComponentNames ==
  <<"loadingManager", "headerManager", "dropdownManager", "smoothScroller",
    "modalManager", "animationObserver", "performanceOptimizer",
    "errorHandler", "mobileMenu">>

\* what ModalManager.init adds listeners to
ModalListeners == {"productButtons", "closeBtn", "overlay", "buyBtn", "keydown"}

\* ModalManager.init() in a document that has the elements els: the
\* listeners it has added when it returns or throws, and whether it throws
\* (addEventListener called on null)
ModalManagerInit(els) ==
  IF "modal" \notin els THEN [wired |-> {}, threw |-> FALSE]
  ELSE IF "closeBtn" \notin els
    THEN [wired |-> {"productButtons"}, threw |-> TRUE]
  ELSE IF "overlay" \notin els
    THEN [wired |-> {"productButtons", "closeBtn"}, threw |-> TRUE]
  ELSE IF "buyBtn" \notin els
    THEN [wired |-> {"productButtons", "closeBtn", "overlay"}, threw |-> TRUE]
  ELSE [wired |-> ModalListeners, threw |-> FALSE]

\* the position of modalManager in ComponentNames
ModalManagerIndex == CHOOSE i \in 1..Len(ComponentNames) : ComponentNames[i] = "modalManager"

\* initializeComponents(): the try block ends at the constructor that
\* throws, and the catch block logs the error
initializeComponents(els) ==
  LET modal == ModalManagerInit(els)
  IN [wired |-> modal.wired,
      components |-> IF modal.threw
                     THEN SubSeq(ComponentNames, 1, ModalManagerIndex - 1)
                     ELSE ComponentNames,
      windowDropdownManager |-> ~modal.threw,
      startupError |-> modal.threw]

\* the page after initializeComponents()
Started(els) ==
  /\ wired = initializeComponents(els).wired
  /\ components = initializeComponents(els).components
  /\ windowDropdownManager = initializeComponents(els).windowDropdownManager
  /\ startupError = initializeComponents(els).startupError

\* new HeaderManager() in a window scrolled to y; no scroll event yet
InitHeader(y) ==
  /\ scrollY = y
  /\ lastScrollY = y
  /\ headerBackground = ""
  /\ headerBackdropFilter = ""
  /\ inThrottle = undefined
  /\ throttleTimers = <<>>

\* a document with every element of the dialog and no dropdown, after
\* startup
InitStarted ==
  /\ elements = ModalElements
  /\ dropdowns = <<>>
  /\ scrollLinks = <<>>
  /\ dropdownShow = {}
  /\ activeDropdown = "null"
  /\ ariaExpanded = [d \in Range(dropdowns) |-> AriaInitial]
  /\ scrolls = <<>>
  /\ Started(ModalElements)

\* the state after new ModalManager() with every element present
InitModal ==
  /\ isOpen = FALSE
  /\ currentProduct = undefined
  /\ focusableElements = <<>>
  /\ firstFocusableElement = "null"
  /\ lastFocusableElement = "null"
  /\ modalTitle = <<>>
  /\ modalContent = ""
  /\ modalShow = FALSE
  /\ modalDisplay = ""
  /\ bodyOverflow = ""
  /\ activeElement = "body"
  /\ timers = <<>>
  /\ windows = <<>>
  /\ gtagDefined \in BOOLEAN
  /\ events = <<>>
  /\ trigger = undefined
  /\ navigations = 0
  /\ step = "idle"
  /\ lastOp = Op("init", "", FALSE, FALSE)

Init ==
  /\ InitStarted
  /\ InitHeader(0)
  /\ InitModal
  /\ paymentLinks = ShippedPaymentLinks
  /\ focusableControls = TRUE

\* the same, in a document whose dialog may have no focusable element
InitDocument ==
  /\ InitStarted
  /\ InitHeader(0)
  /\ InitModal
  /\ paymentLinks = ShippedPaymentLinks
  /\ focusableControls \in BOOLEAN

\* the dropdowns and the scroll links of the page: two dropdowns whose
\* menu items are scroll links, and one scroll link outside them
PageDropdowns == <<"dd1", "dd2">>

PageScrollLinks == <<"navLink", "dd1.link", "dd2.link">>

\* the page before new App(), for every combination of presence and
\* absence of the dialog's elements, without an analytics script
InitPage ==
  /\ elements \in SUBSET ModalElements
  /\ dropdowns = PageDropdowns
  /\ scrollLinks = PageScrollLinks
  /\ dropdownShow = {}
  /\ activeDropdown = "null"
  /\ ariaExpanded = [d \in Range(dropdowns) |-> AriaInitial]
  /\ scrolls = <<>>
  /\ wired = {}
  /\ components = <<>>
  /\ windowDropdownManager = FALSE
  /\ startupError = FALSE
  /\ InitHeader(0)
  /\ InitModal
  /\ ~gtagDefined
  /\ paymentLinks = ShippedPaymentLinks
  /\ focusableControls = TRUE

\* the payment-link table with the link of one product left out
LinksWithout(productId) ==
  [id \in DOMAIN ShippedPaymentLinks \ {productId} |-> ShippedPaymentLinks[id]]

\* the same program over a table in which one product has no payment link:
\* the input on which handlePurchase takes its fallback for a catalog product
InitLinks ==
  /\ InitStarted
  /\ InitHeader(0)
  /\ InitModal
  /\ \E productId \in DOMAIN ShippedPaymentLinks :
       paymentLinks = LinksWithout(productId)
  /\ focusableControls = TRUE

\* ------------------------------------------------------------------------
\* ModalManager
\* ------------------------------------------------------------------------
\* setTimeout(callback, delay)
SetTimeout(queue, kind, delay) == Append(queue, [kind |-> kind, rem |-> delay])

\* gtag('event', name, {product_id, event_category}) when gtag is defined
Track(name, productId, category) ==
  IF gtagDefined
  THEN <<[name |-> name, product_id |-> productId, event_category |-> category]>>
  ELSE <<>>

\* trackModalOpen(productId)
trackModalOpen(productId) == Track("modal_open", productId, "engagement")

\* trackPurchaseIntent with the event name and category of trackModalOpen
trackPurchaseIntent_asOpen(productId) == Track("modal_open", productId, "engagement")

\* trackPurchaseIntent(productId)
trackPurchaseIntent(productId) == Track("purchase_intent", productId, "conversion")

\* const product = this.productContents[productId]; if (!product) return;
HasProduct(productId) == productId \in DOMAIN productContents

\* RefuseOpen with the scroll lock of line 605 taken before the check of
\* line 593
RefuseOpen_locksScroll(button) ==
  /\ events' = <<>>
  /\ bodyOverflow' = "hidden"
  /\ UNCHANGED <<isOpen, currentProduct, focusableElements,
                 firstFocusableElement, lastFocusableElement, modalTitle,
                 modalContent, modalShow, modalDisplay, activeElement, timers,
                 trigger, navigations>>

\* RefuseOpen with the assignment of line 602 made before the check of
\* line 593
RefuseOpen_storesProduct(button) ==
  /\ events' = <<>>
  /\ currentProduct' = DataProduct[button]
  /\ UNCHANGED <<isOpen, focusableElements, firstFocusableElement,
                 lastFocusableElement, modalTitle, modalContent, modalShow,
                 modalDisplay, bodyOverflow, activeElement, timers, trigger,
                 navigations>>

\* openModal when it finds no product: it returns before it changes anything
RefuseOpen(button) ==
  /\ events' = <<>>
  /\ UNCHANGED <<modalVars, activeElement, timers, trigger, navigations>>

\* Render without line 596: the body of the earlier product stays
Render_titleOnly(productId) ==
  /\ modalTitle' = productContents[productId].title
  /\ UNCHANGED modalContent

\* this.modalTitle.textContent = product.title;
\* this.modalContent.innerHTML = product.content;
Render(productId) ==
  /\ modalTitle' = productContents[productId].title
  /\ modalContent' = productContents[productId].content

\* setupFocusManagement()
setupFocusManagement ==
  /\ focusableElements' = ModalFocusable
  /\ firstFocusableElement' =
       IF ModalFocusable = <<>> THEN undefined ELSE ModalFocusable[1]
  /\ lastFocusableElement' =
       IF ModalFocusable = <<>> THEN undefined
       ELSE ModalFocusable[Len(ModalFocusable)]

\* openModal from the rendering of the product on
EnterOpen(button) ==
  /\ Len(timers) < MaxTimers
  /\ Render(DataProduct[button])
  /\ modalShow' = TRUE
  /\ modalDisplay' = "flex"
  /\ isOpen' = TRUE
  /\ currentProduct' = DataProduct[button]
  /\ bodyOverflow' = "hidden"
  /\ setupFocusManagement
  /\ timers' = SetTimeout(timers, "focus", FOCUS_DELAY)
  /\ events' = trackModalOpen(DataProduct[button])
  /\ trigger' = button
  /\ navigations' = 0
  /\ UNCHANGED activeElement

\* openModal(event), event.currentTarget = button
openModal(button) ==
  /\ step' = "event"
  /\ lastOp' = Op("open", button, FALSE, FALSE)
  /\ IF HasProduct(DataProduct[button]) THEN EnterOpen(button)
     ELSE RefuseOpen(button)
  /\ windows' = <<>>
  /\ UNCHANGED <<paymentLinks, gtagDefined>>

\* the element closeModal gives focus to, undefined when it finds none
FocusTarget(product) == QueryDataProduct(product)

\* closeModal without line 626: the scroll lock is left in place
closeModal_keepsLock ==
  /\ Len(timers) < MaxTimers
  /\ modalShow' = FALSE
  /\ isOpen' = FALSE
  /\ timers' = SetTimeout(timers, "hide", ANIMATION_DURATION)
  /\ activeElement' =
       IF FocusTarget(currentProduct) # undefined
       THEN FocusTarget(currentProduct) ELSE activeElement
  /\ UNCHANGED <<currentProduct, focusableElements, firstFocusableElement,
                 lastFocusableElement, modalTitle, modalContent, modalDisplay,
                 bodyOverflow, paymentLinks, gtagDefined, trigger>>

\* closeModal without line 622: the dialog keeps its 'show' class
closeModal_keepsShow ==
  /\ Len(timers) < MaxTimers
  /\ isOpen' = FALSE
  /\ bodyOverflow' = "auto"
  /\ timers' = SetTimeout(timers, "hide", ANIMATION_DURATION)
  /\ activeElement' =
       IF FocusTarget(currentProduct) # undefined
       THEN FocusTarget(currentProduct) ELSE activeElement
  /\ UNCHANGED <<modalShow, currentProduct, focusableElements,
                 firstFocusableElement, lastFocusableElement, modalTitle,
                 modalContent, modalDisplay, paymentLinks, gtagDefined,
                 trigger>>

\* closeModal without line 624: isOpen keeps its value
closeModal_staysOpen ==
  /\ Len(timers) < MaxTimers
  /\ modalShow' = FALSE
  /\ bodyOverflow' = "auto"
  /\ timers' = SetTimeout(timers, "hide", ANIMATION_DURATION)
  /\ activeElement' =
       IF FocusTarget(currentProduct) # undefined
       THEN FocusTarget(currentProduct) ELSE activeElement
  /\ UNCHANGED <<isOpen, currentProduct, focusableElements,
                 firstFocusableElement, lastFocusableElement, modalTitle,
                 modalContent, modalDisplay, paymentLinks, gtagDefined,
                 trigger>>

\* closeModal() when focus is on the element focus: its effect on the
\* dialog, the timers and the focus
closeModalFrom(focus) ==
  /\ Len(timers) < MaxTimers
  /\ modalShow' = FALSE
  /\ isOpen' = FALSE
  /\ bodyOverflow' = "auto"
  /\ timers' = SetTimeout(timers, "hide", ANIMATION_DURATION)
  /\ activeElement' =
       IF FocusTarget(currentProduct) # undefined
       THEN FocusTarget(currentProduct) ELSE focus
  /\ UNCHANGED <<currentProduct, focusableElements, firstFocusableElement,
                 lastFocusableElement, modalTitle, modalContent, modalDisplay,
                 paymentLinks, gtagDefined, trigger>>

\* closeModal(): its effect on the dialog, the timers and the focus
closeModal ==
  /\ Len(timers) < MaxTimers
  /\ modalShow' = FALSE
  /\ isOpen' = FALSE
  /\ bodyOverflow' = "auto"
  /\ timers' = SetTimeout(timers, "hide", ANIMATION_DURATION)
  /\ activeElement' =
       IF FocusTarget(currentProduct) # undefined
       THEN FocusTarget(currentProduct) ELSE activeElement
  /\ UNCHANGED <<currentProduct, focusableElements, firstFocusableElement,
                 lastFocusableElement, modalTitle, modalContent, modalDisplay,
                 paymentLinks, gtagDefined, trigger>>

\* a click on the close control or on the backdrop
ClickClose(control) ==
  /\ closeModal
  /\ step' = "event"
  /\ lastOp' = Op("close", control, FALSE, FALSE)
  /\ windows' = <<>>
  /\ events' = <<>>
  /\ UNCHANGED navigations

\* WhatsappURL with a use of the display name that throws when the name is
\* undefined
WhatsappURL_needsName(product) ==
  LET productName == StringAt(productNames, product)
      message == MessagePrefix \o productName \o MessageSuffix
      encoded == encodeURIComponent(message)
  IN IF productName = undefinedString \/ encoded = Thrown THEN Thrown
     ELSE WhatsappBase \o encoded

\* the URL of the WhatsApp fallback for a product id
WhatsappURL(product) ==
  LET productName == StringAt(productNames, product)
      message == MessagePrefix \o TemplateText(productName) \o MessageSuffix
      encoded == encodeURIComponent(message)
  IN IF encoded = Thrown THEN Thrown ELSE WhatsappBase \o encoded

\* PurchaseURL without the payment-link branch
PurchaseURL_alwaysWhatsapp(links, product) == WhatsappURL(product)

\* the URL handlePurchase opens
PurchaseURL(links, product) ==
  LET paymentLink == StringAt(links, product)
  IN IF Truthy(paymentLink) THEN paymentLink ELSE WhatsappURL(product)

\* window.open(url, '_blank', 'noopener,noreferrer')
WindowOpen(url) ==
  [url |-> url, target |-> "_blank", features |-> "noopener,noreferrer"]

\* handlePurchase(): a click on the confirm control
handlePurchase ==
  LET url == PurchaseURL(paymentLinks, currentProduct)
  IN IF url = Thrown
     THEN /\ step' = "event"
          /\ lastOp' = Op("purchase", "buyBtn", TRUE, FALSE)
          /\ windows' = <<>>
          /\ events' = <<>>
          /\ UNCHANGED <<modalVars, paymentLinks, activeElement, timers,
                         gtagDefined, trigger, navigations>>
     ELSE /\ navigations < MaxNav
          /\ windows' = <<WindowOpen(url)>>
          /\ navigations' = navigations + 1
          /\ events' = trackPurchaseIntent(currentProduct)
          /\ closeModal
          /\ step' = "event"
          /\ lastOp' = Op("purchase", "buyBtn", FALSE, FALSE)

\* handleTabKey without the comparisons with document.activeElement: every
\* Tab is taken over
TabWrap_eager(shiftKey) ==
  IF shiftKey THEN lastFocusableElement ELSE firstFocusableElement

\* handleTabKey without its else branch (lines 653-658): only Shift+Tab wraps
TabWrap_backwardOnly(shiftKey) ==
  IF shiftKey /\ activeElement = firstFocusableElement
  THEN lastFocusableElement ELSE undefined

\* handleTabKey(event): the element it gives focus to, undefined when it
\* leaves the key to its default action
TabWrap(shiftKey) ==
  IF shiftKey
  THEN (IF activeElement = firstFocusableElement THEN lastFocusableElement
        ELSE undefined)
  ELSE (IF activeElement = lastFocusableElement THEN firstFocusableElement
        ELSE undefined)

\* the keys told apart by the keydown listener
Keys == {"Escape", "Tab", "Enter"}

\* the keydown listener of the document, followed by the key's default action
KeyDown(key, shiftKey) ==
  IF isOpen /\ key = "Escape"
  THEN /\ closeModal
       /\ step' = "event"
       /\ lastOp' = KeyOp(key, shiftKey, FALSE)
       /\ windows' = <<>>
       /\ events' = <<>>
       /\ UNCHANGED navigations
  ELSE IF isOpen /\ key = "Tab" /\ TabWrap(shiftKey) # undefined
  THEN /\ activeElement' =
            IF Rendered(TabWrap(shiftKey), modalDisplay)
            THEN TabWrap(shiftKey) ELSE activeElement
       /\ lastOp' = KeyOp(key, shiftKey, TRUE)
       /\ step' = "event"
       /\ windows' = <<>>
       /\ events' = <<>>
       /\ UNCHANGED <<modalVars, paymentLinks, timers, gtagDefined, trigger,
                      navigations>>
  ELSE /\ activeElement' =
            IF key = "Tab" THEN DefaultTab(activeElement, shiftKey, modalDisplay)
            ELSE activeElement
       /\ lastOp' = KeyOp(key, shiftKey, FALSE)
       /\ step' = "event"
       /\ windows' = <<>>
       /\ events' = <<>>
       /\ UNCHANGED <<modalVars, paymentLinks, timers, gtagDefined, trigger,
                      navigations>>

\* ------------------------------------------------------------------------
\* DropdownManager
\* ------------------------------------------------------------------------
\* the state the dropdown manager works on
DropdownState ==
  [show |-> dropdownShow, active |-> activeDropdown, aria |-> ariaExpanded,
   timers |-> timers]

\* closeDropdown(dropdown)
closeDropdown(s, dropdown) ==
  [s EXCEPT !.show = @ \ {dropdown},
            !.aria[dropdown] = "false",
            !.active = IF @ = dropdown THEN "null" ELSE @]

\* this.dropdowns.forEach(dropdown => this.closeDropdown(dropdown)) over ds
RECURSIVE CloseEach(_, _)
CloseEach(s, ds) ==
  IF ds = <<>> THEN s ELSE CloseEach(closeDropdown(s, Head(ds)), Tail(ds))

\* closeAllDropdowns()
closeAllDropdowns(s) == CloseEach(s, dropdowns)

\* openDropdown(dropdown)
openDropdown(s, dropdown) ==
  [show |-> s.show \cup {dropdown},
   aria |-> [s.aria EXCEPT ![dropdown] = "true"],
   active |-> dropdown,
   timers |-> SetTimeout(s.timers, MenuLink[dropdown], MENU_FOCUS_DELAY)]

\* toggleDropdown without closeAllDropdowns(): the other dropdowns stay
toggleDropdown_keepsOthers(s, dropdown) ==
  IF dropdown \in s.show THEN closeDropdown(s, dropdown)
  ELSE openDropdown(s, dropdown)

\* toggleDropdown without the test of isOpen: it always opens
toggleDropdown_opensOnly(s, dropdown) ==
  openDropdown(closeAllDropdowns(s), dropdown)

\* toggleDropdown(event, dropdown)
toggleDropdown(s, dropdown) ==
  IF dropdown \in s.show THEN closeAllDropdowns(s)
  ELSE openDropdown(closeAllDropdowns(s), dropdown)

\* DocumentClick without the call of line 133
DocumentClick_idle(s, target) == s

\* the dropdown manager's click listener of the document, on an event
\* whose target is target, from the dropdown state s
DocumentClick(s, target) ==
  IF "dropdownManager" \in Range(components) /\ Closest(target) = "null"
  THEN closeAllDropdowns(s) ELSE s

\* the dropdown manager's keydown listener of the document
DocumentKeyDown(s, key) ==
  IF "dropdownManager" \in Range(components) /\ key = "Escape"
  THEN closeAllDropdowns(s) ELSE s

\* the dropdown state after an event callback
SetDropdowns(s) ==
  /\ dropdownShow' = s.show
  /\ activeDropdown' = s.active
  /\ ariaExpanded' = s.aria

\* an event that no listener of the modal controller handles
Unhandled(name, arg) ==
  /\ step' = "event"
  /\ lastOp' = Op(name, arg, FALSE, FALSE)
  /\ windows' = <<>>
  /\ events' = <<>>
  /\ UNCHANGED <<modalVars, paymentLinks, activeElement, timers, gtagDefined,
                 trigger, navigations>>

\* a click on the button of a dropdown: toggleDropdown stops the event
\* before it reaches the document
ClickDropdownButton(dropdown) ==
  /\ "dropdownManager" \in Range(components)
  /\ dropdown \notin dropdownShow => Len(timers) < MaxTimers
  /\ SetDropdowns(toggleDropdown(DropdownState, dropdown))
  /\ timers' = toggleDropdown(DropdownState, dropdown).timers
  /\ step' = "event"
  /\ lastOp' = Op("toggle", dropdown, FALSE, TRUE)
  /\ windows' = <<>>
  /\ events' = <<>>
  /\ scrolls' = <<>>
  /\ UNCHANGED <<modalVars, paymentLinks, activeElement, gtagDefined, trigger,
                 navigations, headerVars, documentVars, startupVars>>

\* a click on an element that has no click listener of its own
ClickOutside(target) ==
  /\ components # <<>>
  /\ Unhandled("click", target)
  /\ SetDropdowns(DocumentClick(DropdownState, target))
  /\ scrolls' = <<>>
  /\ UNCHANGED <<headerVars, documentVars, startupVars>>

\* ------------------------------------------------------------------------
\* SmoothScroller
\* ------------------------------------------------------------------------
\* window.scrollTo(...), with the dropdowns that are open when it is called
ScrollTo(link, s) == [link |-> link, openDropdowns |-> s.show]

\* handleClick(event) on a scroll link, then the click listener of the
\* document; targetElement is whether document.querySelector(targetId)
\* finds an element
ClickScrollLink(link, targetElement) ==
  LET closed == IF targetElement /\ windowDropdownManager
                THEN closeAllDropdowns(DropdownState) ELSE DropdownState
  IN /\ "smoothScroller" \in Range(components)
     /\ scrolls' = IF targetElement THEN <<ScrollTo(link, closed)>> ELSE <<>>
     /\ SetDropdowns(DocumentClick(closed, link))
     /\ step' = "event"
     /\ lastOp' = Op("scroll", link, FALSE, TRUE)
     /\ windows' = <<>>
     /\ events' = <<>>
     /\ UNCHANGED <<modalVars, paymentLinks, activeElement, timers,
                    gtagDefined, trigger, navigations, headerVars, documentVars,
                    startupVars>>

\* ------------------------------------------------------------------------
\* Events of the page
\* ------------------------------------------------------------------------
\* a click on a product button: openModal when the button has its
\* listener, then the click listener of the document
ClickProductButton(button) ==
  /\ components # <<>>
  /\ IF "productButtons" \in wired THEN openModal(button)
     ELSE Unhandled("click", button)
  /\ SetDropdowns(DocumentClick(DropdownState, button))
  /\ scrolls' = <<>>
  /\ UNCHANGED <<headerVars, documentVars, startupVars>>

\* a click on the close control, the backdrop or the confirm control
ClickControl(control) ==
  /\ components # <<>>
  /\ control \in elements
  /\ IF control \notin wired THEN Unhandled("click", control)
     ELSE IF control = "buyBtn" THEN handlePurchase
     ELSE ClickClose(control)
  /\ SetDropdowns(DocumentClick(DropdownState, control))
  /\ scrolls' = <<>>
  /\ UNCHANGED <<headerVars, documentVars, startupVars>>

\* a key with no keydown listener of the modal controller: its default action
DefaultKey(key, shiftKey) ==
  /\ activeElement' =
       IF key = "Tab" THEN DefaultTab(activeElement, shiftKey, modalDisplay)
       ELSE activeElement
  /\ lastOp' = KeyOp(key, shiftKey, FALSE)
  /\ step' = "event"
  /\ windows' = <<>>
  /\ events' = <<>>
  /\ UNCHANGED <<modalVars, paymentLinks, timers, gtagDefined, trigger,
                 navigations>>

\* Enter on the button of a dropdown: the button's keydown listener
\* toggles the dropdown and stops the event
KeyToggle(dropdown, key, shiftKey) ==
  /\ dropdown \notin dropdownShow => Len(timers) < MaxTimers
  /\ SetDropdowns(toggleDropdown(DropdownState, dropdown))
  /\ timers' = toggleDropdown(DropdownState, dropdown).timers
  /\ lastOp' = KeyOp(key, shiftKey, TRUE)
  /\ step' = "event"
  /\ windows' = <<>>
  /\ events' = <<>>
  /\ UNCHANGED <<modalVars, paymentLinks, activeElement, gtagDefined, trigger,
                 navigations>>

\* Escape inside the content of a dropdown: the content's keydown listener
\* closes the dropdown and focuses its button, then the keydown listeners
\* of the document run
KeyMenuEscape(dropdown, key, shiftKey) ==
  /\ SetDropdowns(DocumentKeyDown(closeDropdown(DropdownState, dropdown), key))
  /\ lastOp' = KeyOp(key, shiftKey, FALSE)
  /\ step' = "event"
  /\ windows' = <<>>
  /\ events' = <<>>
  /\ UNCHANGED navigations
  /\ IF "keydown" \in wired /\ isOpen
     THEN closeModalFrom(DropdownButton[dropdown])
     ELSE /\ activeElement' = DropdownButton[dropdown]
          /\ UNCHANGED <<modalVars, paymentLinks, timers, gtagDefined, trigger>>

\* a keydown event on the focused element
KeyEvent(key, shiftKey) ==
  LET dropdown == Closest(activeElement)
  IN /\ components # <<>>
     /\ scrolls' = <<>>
     /\ UNCHANGED <<headerVars, documentVars, startupVars>>
     /\ IF dropdown # "null" /\ activeElement = DropdownButton[dropdown]
           /\ key = "Enter"
        THEN KeyToggle(dropdown, key, shiftKey)
        ELSE IF dropdown # "null" /\ activeElement = MenuLink[dropdown]
                /\ key = "Escape"
        THEN KeyMenuEscape(dropdown, key, shiftKey)
        ELSE /\ SetDropdowns(DocumentKeyDown(DropdownState, key))
             /\ IF "keydown" \in wired THEN KeyDown(key, shiftKey)
                ELSE DefaultKey(key, shiftKey)

\* new App(): initializeComponents() in the document
Startup ==
  /\ components = <<>>
  /\ ~startupError
  /\ wired' = initializeComponents(elements).wired
  /\ components' = initializeComponents(elements).components
  /\ windowDropdownManager' = initializeComponents(elements).windowDropdownManager
  /\ startupError' = initializeComponents(elements).startupError
  /\ step' = "event"
  /\ lastOp' = Op("startup", "", FALSE, FALSE)
  /\ windows' = <<>>
  /\ events' = <<>>
  /\ scrolls' = <<>>
  /\ UNCHANGED <<modalVars, paymentLinks, activeElement, timers, gtagDefined,
                 trigger, navigations, headerVars, documentVars, dropdownVars>>

\* ------------------------------------------------------------------------
\* Deferred callbacks
\* ------------------------------------------------------------------------
\* the pending callback that runs next: the first one that is due
DueTimers == {i \in 1..Len(timers) : timers[i].rem = 0}

NextDue == CHOOSE i \in DueTimers : \A j \in DueTimers : i <= j

\* queue without its i-th element
RemoveAt(queue, i) == SubSeq(queue, 1, i - 1) \o SubSeq(queue, i + 1, Len(queue))

\* () => { this.modal.style.display = 'none'; } ; an element that stops
\* being rendered loses focus to the body
HideCallback ==
  /\ modalDisplay' = "none"
  /\ activeElement' = IF InModal(activeElement) THEN "body" ELSE activeElement

\* () => { if (this.firstFocusableElement) this.firstFocusableElement.focus(); }
FocusCallback ==
  /\ activeElement' =
       IF /\ firstFocusableElement \notin {undefined, "null"}
          /\ Rendered(firstFocusableElement, modalDisplay)
       THEN firstFocusableElement ELSE activeElement
  /\ UNCHANGED modalDisplay

\* () => firstMenuItem.focus()
MenuFocusCallback(firstMenuItem) ==
  /\ activeElement' = firstMenuItem
  /\ UNCHANGED modalDisplay

\* the event loop runs the next due callback
FireTimer ==
  /\ DueTimers # {}
  /\ timers' = RemoveAt(timers, NextDue)
  /\ IF timers[NextDue].kind = "hide" THEN HideCallback
     ELSE IF timers[NextDue].kind = "focus" THEN FocusCallback
     ELSE MenuFocusCallback(timers[NextDue].kind)
  /\ step' = "timeout"
  /\ UNCHANGED <<isOpen, currentProduct, focusableElements,
                 firstFocusableElement, lastFocusableElement, paymentLinks,
                 modalTitle, modalContent, modalShow, bodyOverflow, windows,
                 gtagDefined, events, trigger, navigations, lastOp,
                 headerVars, documentVars, startupVars, dropdownVars, scrolls>>

\* 100 ms pass; a callback that is due runs before time moves on
Tick ==
  /\ timers # <<>>
  /\ DueTimers = {}
  /\ timers' = [i \in 1..Len(timers) |-> [timers[i] EXCEPT !.rem = @ - 1]]
  /\ step' = "idle"
  /\ UNCHANGED <<isOpen, currentProduct, focusableElements,
                 firstFocusableElement, lastFocusableElement, paymentLinks,
                 modalTitle, modalContent, modalShow, modalDisplay,
                 bodyOverflow, activeElement, windows, gtagDefined, events,
                 trigger, navigations, lastOp, headerVars, documentVars, startupVars,
                 dropdownVars, scrolls>>

\* ------------------------------------------------------------------------
\* Specification
\* ------------------------------------------------------------------------
Open == \E button \in Range(productButtons) : ClickProductButton(button)

Close == \E control \in {"closeBtn", "overlay"} : ClickControl(control)

Purchase == ClickControl("buyBtn")

\* the listeners read event.shiftKey only when the key is Tab
Key ==
  \E key \in Keys, shiftKey \in BOOLEAN :
    (shiftKey => key = "Tab") /\ KeyEvent(key, shiftKey)

Next ==
  \/ Open
  \/ Close
  \/ Purchase
  \/ Key
  \/ FireTimer
  \/ Tick

Spec == Init /\ [][Next]_vars

\* the keys that never move focus by their default action
PlainKey == \E key \in {"Escape", "Enter"} : KeyEvent(key, FALSE)

\* the events of the dialog without the Tab key
NextLinks ==
  \/ Open
  \/ Close
  \/ Purchase
  \/ PlainKey
  \/ FireTimer
  \/ Tick

SpecLinks == InitLinks /\ [][NextLinks]_vars

SpecDocument == InitDocument /\ [][Next]_vars

\* the page with its dropdowns and scroll links, from before startup on;
\* of the modal's inputs one product button and the keys Escape and Enter
PageOpen == \E button \in {"btn1"} : ClickProductButton(button)

ToggleDropdown == \E dropdown \in Range(dropdowns) : ClickDropdownButton(dropdown)

Scroll ==
  \E link \in Range(scrollLinks), targetElement \in BOOLEAN :
    ClickScrollLink(link, targetElement)

OutsideClick == ClickOutside("body")

NextPage ==
  \/ Startup
  \/ PageOpen
  \/ Close
  \/ Purchase
  \/ PlainKey
  \/ ToggleDropdown
  \/ Scroll
  \/ OutsideClick
  \/ FireTimer
  \/ Tick

SpecPage == InitPage /\ [][NextPage]_vars

\* ------------------------------------------------------------------------
\* HeaderManager and throttle
\* ------------------------------------------------------------------------
\* the scroll positions the window takes
ScrollPositions ==
  {0, HEADER_THRESHOLD \div 2, HEADER_THRESHOLD, HEADER_THRESHOLD + 1,
   3 * HEADER_THRESHOLD}

\* the background handleScroll gives the header at the position y
Background(y) ==
  IF y > HEADER_THRESHOLD THEN "rgba(10, 10, 10, 0.98)"
  ELSE "rgba(10, 10, 10, 0.95)"

\* handleScroll(), called when the window has reached its new position
handleScroll ==
  /\ headerBackground' = Background(scrollY')
  /\ headerBackdropFilter' = "blur(20px)"
  /\ lastScrollY' = scrollY'

\* the function throttle returns, with func = handleScroll
ThrottledHandleScroll ==
  IF inThrottle # "true"
  THEN /\ handleScroll
       /\ inThrottle' = "true"
       /\ throttleTimers' = SetTimeout(throttleTimers, "throttle", HEADER_THROTTLE)
  ELSE UNCHANGED <<headerBackground, headerBackdropFilter, lastScrollY,
                   inThrottle, throttleTimers>>

\* a scroll event of the window, which has moved to the position y
ScrollEvent(y) ==
  /\ "headerManager" \in Range(components)
  /\ y # scrollY
  /\ scrollY' = y
  /\ ThrottledHandleScroll
  /\ step' = "event"
  /\ lastOp' = Op("onscroll", "", FALSE, FALSE)
  /\ UNCHANGED pageVars

\* the callback of throttle with a trailing call of func
ThrottleCallback_trailing ==
  /\ inThrottle' = "false"
  /\ headerBackground' = Background(scrollY)
  /\ headerBackdropFilter' = "blur(20px)"
  /\ lastScrollY' = scrollY

\* () => inThrottle = false
ThrottleCallback ==
  /\ inThrottle' = "false"
  /\ UNCHANGED <<headerBackground, headerBackdropFilter, lastScrollY>>

\* the event loop runs the callback of throttle when it is due
FireThrottleTimer ==
  /\ throttleTimers # <<>>
  /\ Head(throttleTimers).rem = 0
  /\ throttleTimers' = Tail(throttleTimers)
  /\ ThrottleCallback
  /\ step' = "timeout"
  /\ UNCHANGED <<scrollY, lastOp, pageVars>>

\* 5 ms pass while a callback of throttle is pending and not due
ThrottleTick ==
  /\ throttleTimers # <<>>
  /\ \A i \in 1..Len(throttleTimers) : throttleTimers[i].rem > 0
  /\ throttleTimers' =
       [i \in 1..Len(throttleTimers) |-> [throttleTimers[i] EXCEPT !.rem = @ - 1]]
  /\ step' = "idle"
  /\ UNCHANGED <<scrollY, lastScrollY, headerBackground, headerBackdropFilter,
                 inThrottle, lastOp, pageVars>>

\* the page after startup, scrolled to any of the positions
InitScroll ==
  /\ InitStarted
  /\ \E y \in ScrollPositions : InitHeader(y)
  /\ InitModal
  /\ ~gtagDefined
  /\ paymentLinks = ShippedPaymentLinks
  /\ focusableControls = TRUE

OnScroll == \E y \in ScrollPositions : ScrollEvent(y)

NextScroll ==
  \/ OnScroll
  \/ FireThrottleTimer
  \/ ThrottleTick

SpecScroll == InitScroll /\ [][NextScroll]_vars

\* ------------------------------------------------------------------------
\* Properties
\* ------------------------------------------------------------------------
\* the catalog keys
CatalogIds == DOMAIN productContents

\* the last event callback was an open that entered Open
OpenedBy(op) == op.name = "open" /\ DataProduct[op.arg] \in CatalogIds

\* C1: a deferred hide scheduled by close() never hides a dialog that has
\* been reopened: whenever isOpen is true the dialog surface is displayed
\* (its display is not 'none').
ReopenedDialogStaysDisplayed == isOpen => modalDisplay # "none"

\* C2: after one open(id), the activations of the confirm control before
\* the next open cause at most one outbound navigation in total.
AtMostOneNavigationPerOpen == trigger # undefined => navigations <= 1

\* C3: after open(id) requested by trigger element t followed by close(),
\* keyboard focus is on t, and it is still on t after the deferred callbacks
\* of that open and close have fired with no further user action.
FocusReturnsToTrigger ==
  (lastOp.name = "close" /\ lastOp.wasOpen) => activeElement = trigger

\* C4: open(unknownId) leaves the whole modal state unchanged (isOpen,
\* current product id, displayed title and body, scroll lock, focusable
\* elements, pending timers, focus) and emits no analytics event.
UnknownOpenIsNoOp ==
  [][(step' = "event" /\ lastOp'.name = "open"
        /\ DataProduct[lastOp'.arg] \notin CatalogIds)
     => (UNCHANGED <<modalVars, timers, activeElement>> /\ events' = <<>>)]_vars

\* the case of C4: an unknown id was requested while the dialog was Open on
\* a catalog product
UnknownOpenWhileOpen ==
  /\ step = "event"
  /\ lastOp.name = "open"
  /\ DataProduct[lastOp.arg] \notin CatalogIds
  /\ lastOp.wasOpen
  /\ isOpen

\* C5: in every reachable state, isOpen = true implies that the current
\* product id is a key of the product catalog.
OpenImpliesCatalogProduct == isOpen => currentProduct \in CatalogIds

\* the case of C5: the dialog is Open on a product after a key event that
\* found it Open
OpenAfterKeysAndRefusal ==
  /\ isOpen
  /\ lastOp.name = "keydown"
  /\ lastOp.wasOpen
  /\ currentProduct = "mentoria"

\* C6: after open(id) for a catalog id, from Closed or from Open on another
\* id, the displayed title and body are that id's record; and while the
\* dialog is Open the displayed content is the record of the current
\* product id.
DisplayedContentIsRecord ==
  /\ (step = "event" /\ OpenedBy(lastOp))
       => /\ isOpen
          /\ currentProduct = DataProduct[lastOp.arg]
          /\ modalTitle = productContents[DataProduct[lastOp.arg]].title
          /\ modalContent = productContents[DataProduct[lastOp.arg]].content
  /\ (isOpen /\ currentProduct \in CatalogIds)
       => /\ modalTitle = productContents[currentProduct].title
          /\ modalContent = productContents[currentProduct].content

\* the case of C6: the dialog was Open on one product and has been opened
\* on another
ReopenedOnOtherProduct ==
  /\ step = "event"
  /\ OpenedBy(lastOp)
  /\ lastOp.wasOpen
  /\ lastOp.product \in CatalogIds
  /\ lastOp.product # currentProduct

\* the one window a purchase opened, as window.open was called
OpenedExactly(url) ==
  windows = <<[url |-> url, target |-> "_blank",
               features |-> "noopener,noreferrer"]>>

\* C7: purchase() invoked while the dialog is Open on a product that has a
\* payment URL opens exactly that URL, and no other, in a new
\* noopener,noreferrer context, and the state afterwards is Closed.
PurchaseOpensPaymentURL ==
  (lastOp.name = "purchase" /\ lastOp.wasOpen
     /\ lastOp.product \in DOMAIN paymentLinks)
  => (OpenedExactly(paymentLinks[lastOp.product]) /\ ~isOpen)

\* the case of C7: a purchase was made from Open on a product with a link
PurchasedWithPaymentLink ==
  /\ lastOp.name = "purchase"
  /\ lastOp.wasOpen
  /\ lastOp.product \in DOMAIN paymentLinks
  /\ step = "event"

\* the decoded text parameter of a WhatsApp URL
DecodedText(url) ==
  decodeURIComponent(SubSeq(url, Len(WhatsappBase) + 1, Len(url)))

PurchaseWithoutProductFallsBack ==
  (lastOp.name = "purchase" /\ lastOp.product \notin CatalogIds)
  => /\ ~lastOp.threw
     /\ Len(windows) = 1
     /\ StartsWith(windows[1].url, WhatsappBase)
     /\ ~isOpen

\* the case of C9: a purchase was made before any open
PurchasedBeforeAnyOpen ==
  /\ lastOp.name = "purchase"
  /\ lastOp.product = undefined
  /\ trigger = undefined
  /\ step = "event"

\* C10: close() called from Closed is a no-op: it changes neither isOpen,
\* the scroll lock of the document, the keyboard focus, the visibility of
\* the dialog nor the set of pending deferred callbacks.
CloseWhenClosedIsNoOp ==
  [][(step' = "event" /\ lastOp'.name = "close" /\ ~isOpen)
     => UNCHANGED <<isOpen, bodyOverflow, activeElement, modalShow,
                    modalDisplay, timers>>]_vars

\* C11: every transition from Open to Closed clears the current product
\* id: in every reachable state where isOpen = false the current product id
\* is none.
ClosedClearsProduct == ~isOpen => currentProduct = undefined

\* C12: from the first successful open onward the document's scroll lock is
\* set (body overflow 'hidden') exactly while isOpen = true, and only the
\* event callbacks of the modal controller change it.
ScrollLockedExactlyWhileOpen ==
  /\ [](trigger # undefined => (bodyOverflow = "hidden" <=> isOpen))
  /\ [][bodyOverflow' # bodyOverflow
          => (step' = "event"
                /\ lastOp'.name \in {"open", "close", "purchase", "keydown"})]_vars

\* the case of C12: the dialog has been opened and closed again, and the
\* lock is released
UnlockedAfterClose ==
  /\ trigger # undefined
  /\ ~isOpen
  /\ lastOp.wasOpen
  /\ bodyOverflow = "auto"

\* C13: open(id) while already Open on the same id is idempotent with no
\* remount: the state, with the pending deferred focus callbacks and the
\* analytics events, is what it was after the single open.
SameIdOpenIsIdempotent ==
  [][(step' = "event" /\ lastOp'.name = "open" /\ isOpen
        /\ DataProduct[lastOp'.arg] = currentProduct)
     => (UNCHANGED <<modalVars, timers, activeElement>> /\ events' = <<>>)]_vars

\* a Tab keydown has just been handled while the dialog was open
TabWhileOpen(op) == op.name = "keydown" /\ op.arg = "Tab" /\ op.wasOpen

\* C14: while Open, Tab with focus on the last focusable element of the
\* rendered dialog moves focus to the first and suppresses the default move;
\* Shift+Tab with focus on the first moves focus to the last and suppresses
\* the default; for every opening.
TabWrapsAtTheEnds ==
  [][(step' = "event" /\ TabWhileOpen(lastOp') /\ ModalFocusable # <<>>)
     => /\ (~lastOp'.shiftKey
              /\ activeElement = ModalFocusable[Len(ModalFocusable)])
           => (activeElement' = ModalFocusable[1] /\ lastOp'.prevented)
        /\ (lastOp'.shiftKey /\ activeElement = ModalFocusable[1])
           => (activeElement' = ModalFocusable[Len(ModalFocusable)]
                 /\ lastOp'.prevented)]_vars

\* the case of C14: Tab on the last element has wrapped to the first, in an
\* opening on the second product
WrappedForward ==
  /\ isOpen
  /\ step = "event"
  /\ TabWhileOpen(lastOp)
  /\ ~lastOp.shiftKey
  /\ lastOp.prevented
  /\ activeElement = ModalFocusable[1]
  /\ trigger = "btn2"
  /\ currentProduct = "gamma-cripto"

\* C15: while the dialog is Open, after any sequence of Tab and Shift+Tab
\* key events since the open, focus never rests outside the dialog's
\* focusable elements.
FocusTrappedWhileOpen ==
  (isOpen /\ step = "event" /\ TabWhileOpen(lastOp)) => InModal(activeElement)

\* an event callback of one of the four close triggers has just run from Open
ClosedBy(op) ==
  /\ op.wasOpen
  /\ \/ op.name \in {"close", "purchase"}
     \/ op.name = "keydown" /\ op.arg = "Escape"

\* C17: from Open, the close control, the backdrop, the Escape key and a
\* completed purchase each lead to Closed in the same event callback; the
\* Escape key has no modal effect when the dialog is Closed.
CloseTriggersClose ==
  /\ []((step = "event" /\ ClosedBy(lastOp)) => ~isOpen)
  /\ [][(step' = "event" /\ lastOp'.name = "keydown"
           /\ lastOp'.arg = "Escape" /\ ~isOpen)
        => (UNCHANGED <<modalVars, timers, activeElement>>
              /\ windows' = <<>> /\ events' = <<>> /\ ~lastOp'.prevented)]_vars

\* the case of C17: Escape has just closed the open dialog
ClosedByEscape ==
  /\ step = "event"
  /\ lastOp.name = "keydown"
  /\ lastOp.arg = "Escape"
  /\ lastOp.wasOpen
  /\ ~isOpen

\* the key of the event is Tab on the last focusable element of the dialog
\* or Shift+Tab on the first
WrapCase(op) ==
  /\ op.arg = "Tab"
  /\ ModalFocusable # <<>>
  /\ \/ ~op.shiftKey /\ activeElement = ModalFocusable[Len(ModalFocusable)]
     \/ op.shiftKey /\ activeElement = ModalFocusable[1]

\* the focus after the default action of the key
DefaultFocus(op) ==
  IF op.arg = "Tab" THEN DefaultTab(activeElement, op.shiftKey, modalDisplay)
  ELSE activeElement

StartupSurvivesModalFailure ==
  (components # <<>>)
    => /\ wired \in {{}, ModalListeners}
       /\ Range(ComponentNames) \ {"modalManager"} \subseteq Range(components)
       /\ windowDropdownManager

\* C19: whenever activating a scroll link starts a scroll, no dropdown is
\* open at the moment scrolling begins, for every startup outcome and also
\* for a link inside an open dropdown.
NoDropdownOpenWhenScrolling ==
  \A i \in 1..Len(scrolls) : scrolls[i].openDropdowns = {}

\* C20: after the click that runs handlePurchase has been dispatched (the
\* confirm control's listener, then the document's click listener), no
\* dropdown is open, whatever dropdown was open before.
PurchaseClosesDropdowns ==
  (step = "event" /\ lastOp.name = "purchase") => dropdownShow = {}

\* the case of C20: a purchase from the open dialog has just been
\* dispatched while a dropdown was open
PurchasedWithDropdownOpen ==
  /\ step = "event"
  /\ lastOp.name = "purchase"
  /\ lastOp.wasOpen
  /\ lastOp.shown # {}
  /\ dropdownShow = {}

\* the one event the sink receives, none when no sink is defined
Received(name, productId, category) ==
  IF gtagDefined
  THEN <<[name |-> name, product_id |-> productId, event_category |-> category]>>
  ELSE <<>>

\* C21: the analytics sink receives exactly one dialog-open event with the
\* opened product id for each open that enters Open, exactly one
\* purchase-intent event with the current product id for each purchase, and
\* nothing for a refused open or a close; without a sink the operations do
\* the same (the open enters Open, the purchase navigates and closes),
\* emit nothing and raise no error.
AnalyticsPerOperation ==
  /\ ~lastOp.threw
  /\ (lastOp.name = "open" /\ OpenedBy(lastOp))
       => /\ events = Received("modal_open", DataProduct[lastOp.arg], "engagement")
          /\ step = "event" => (isOpen /\ currentProduct = DataProduct[lastOp.arg])
  /\ (lastOp.name = "open" /\ ~OpenedBy(lastOp)) => events = <<>>
  /\ lastOp.name = "purchase"
       => /\ events = Received("purchase_intent", lastOp.product, "conversion")
          /\ step = "event" => (~isOpen /\ Len(windows) = 1)
  /\ lastOp.name \in {"close", "keydown", "init"} => events = <<>>

\* the case of C21: a purchase from the open dialog has reached the sink
PurchaseIntentReceived ==
  /\ step = "event"
  /\ lastOp.name = "purchase"
  /\ lastOp.wasOpen
  /\ gtagDefined
  /\ Len(events) = 1
  /\ events[1].product_id = currentProduct

\* C22: in every reachable state the dialog element carries 'show' exactly
\* when isOpen is true, and the one dialog surface shows the one product
\* that is open: its title and body are those of the current product.
ShowMarkerAgreesWithOpenFlag ==
  /\ modalShow <=> isOpen
  /\ modalShow
       => /\ currentProduct \in CatalogIds
          /\ \A id \in CatalogIds :
               (modalTitle = productContents[id].title
                  /\ modalContent = productContents[id].content)
               <=> id = currentProduct

\* the case of C22: the open dialog has been opened again on another
\* product
SurfaceReusedForOtherProduct ==
  /\ step = "event"
  /\ lastOp.name = "open"
  /\ lastOp.wasOpen
  /\ lastOp.product # currentProduct
  /\ modalShow
  /\ isOpen

\* C23: with the shipped tables the payment-link table and the catalog have
\* the same keys, so a purchase made after any successful open navigates to
\* the payment URL of the current product; the WhatsApp fallback is taken
\* only by a purchase that runs before the first successful open.
ShippedLinksCoverCatalog ==
  /\ DOMAIN paymentLinks = CatalogIds
  /\ \A id \in DOMAIN paymentLinks : Truthy(paymentLinks[id])
  /\ (lastOp.name = "purchase" /\ trigger # undefined)
       => /\ lastOp.product \in DOMAIN paymentLinks
          /\ Len(windows) = 1
          /\ windows[1].url = paymentLinks[lastOp.product]
          /\ ~StartsWith(windows[1].url, WhatsappBase)
  /\ (lastOp.name = "purchase" /\ Len(windows) = 1
        /\ StartsWith(windows[1].url, WhatsappBase))
       => (trigger = undefined /\ lastOp.product = undefined)

\* the case of C23: a purchase made after the dialog was opened and closed
\* again has navigated
PurchasedAfterOpenAndClose ==
  /\ step = "event"
  /\ lastOp.name = "purchase"
  /\ ~lastOp.wasOpen
  /\ trigger # undefined
  /\ Len(windows) = 1

\* C24: at most one dropdown content carries 'show'; activeDropdown is null
\* when none is open and otherwise is the one open dropdown; for every
\* dropdown the script has opened or closed at least once, aria-expanded of
\* its button is 'true' exactly when its content carries 'show'.
AtMostOneDropdownOpen ==
  /\ Cardinality(dropdownShow) <= 1
  /\ dropdownShow = {} => activeDropdown = "null"
  /\ dropdownShow # {} => dropdownShow = {activeDropdown}
  /\ \A d \in Range(dropdowns) :
       ariaExpanded[d] # AriaInitial
         => /\ ariaExpanded[d] \in {"true", "false"}
            /\ ariaExpanded[d] = "true" <=> d \in dropdownShow

\* the case of C24: the second dropdown has been opened while the first
\* was open
OpenedOtherDropdown ==
  /\ step = "event"
  /\ lastOp.name = "toggle"
  /\ lastOp.arg = "dd2"
  /\ lastOp.shown = {"dd1"}
  /\ dropdownShow = {"dd2"}
  /\ ariaExpanded["dd1"] = "false"
  /\ ariaExpanded["dd2"] = "true"

\* an event callback that ran toggleDropdown on the dropdown d: a click on
\* its button, or Enter on its focused button
Toggled(op, d) ==
  \/ op.name = "toggle" /\ op.arg = d
  \/ /\ op.name = "keydown" /\ op.arg = "Enter" /\ op.prevented
     /\ activeElement = DropdownButton[d]

\* C25: toggleDropdown(d) leaves no dropdown open if d was open and exactly
\* d open if d was closed; the event that toggles d is stopped before the
\* document's listeners, so this is the state when the event has been
\* dispatched.
ToggleIsATrueToggle ==
  \A d \in Range(dropdowns) :
    (step = "event" /\ Toggled(lastOp, d))
      => /\ lastOp.prevented
         /\ dropdownShow = IF d \in lastOp.shown THEN {} ELSE {d}

\* the case of C25: a click on the button of the open dropdown has closed it
ToggledShut ==
  /\ step = "event"
  /\ lastOp.name = "toggle"
  /\ lastOp.arg \in lastOp.shown
  /\ dropdownShow = {}

\* the step is a scroll event of the window
ScrollEventStep == step' = "event" /\ lastOp'.name = "onscroll" /\ scrollY' # scrollY

\* C26: throttle is leading-edge only: a call made when no window is
\* active invokes func in the same callback and starts a window of length
\* limit; a call during the window is dropped; the end of the window
\* invokes nothing, so func runs at most once per window (the scroll
\* handler may miss the last position of a burst: LastPositionMissed).
ThrottleIsLeadingEdge ==
  [][/\ (ScrollEventStep /\ inThrottle # "true")
          => /\ lastScrollY' = scrollY'
             /\ headerBackground' = Background(scrollY')
             /\ inThrottle' = "true"
             /\ throttleTimers' = <<[kind |-> "throttle", rem |-> HEADER_THROTTLE]>>
     /\ (ScrollEventStep /\ inThrottle = "true")
          => UNCHANGED <<lastScrollY, headerBackground, headerBackdropFilter,
                         inThrottle, throttleTimers>>
     /\ ~ScrollEventStep
          => /\ UNCHANGED <<lastScrollY, headerBackground, headerBackdropFilter>>
             /\ inThrottle' # inThrottle
                  => (inThrottle = "true" /\ inThrottle' = "false"
                        /\ Head(throttleTimers).rem = 0)]_vars

\* the case of C26: the burst is over, its window has ended, and the
\* header still has the background of an earlier position
LastPositionMissed ==
  /\ inThrottle = "false"
  /\ throttleTimers = <<>>
  /\ lastScrollY # scrollY
  /\ headerBackground # ""
  /\ headerBackground # Background(scrollY)

=============================================================================
